---- MODULE Spec2Model ----
(***************************************************************************)
(* Model of extractor.cpp: the annotation loop (main, annotate_pdf,        *)
(* BoxDrawer, save_crops) and the simulated OCR worker thread (ocr_worker, *)
(* next_latex_snippet), which share only the output directory and the      *)
(* stop flag.                                                              *)
(*                                                                         *)
(* Time is counted in units of 100 ms (one sleep_for(100ms)).  Steps other *)
(* than sleeps take no time.  A sleep is two steps: going to sleep and     *)
(* waking up; the time of the sleep is accounted at the wake-up, so that   *)
(* whatever the other thread does "during" the sleep sees the whole sleep  *)
(* still ahead (the worst case, which the code can produce).               *)
(***************************************************************************)
EXTENDS Integers, Sequences, FiniteSets, TLC

(* ------------------------------ bounds --------------------------------- *)
\* largest value of the label counter the catalog is looked up at
MaxIndex == 25
\* largest page count a document of the model has
MaxPages == 2
\* most boxes one BoxDrawer holds (further releases are not delivered)
MaxBoxes == 1
\* most opens of a Result File the file system refuses in one run
MaxFaults == 1
\* the same, in the runs of annotate_pdf alone
MaxDraw == 2

(* ------------------------- program constants --------------------------- *)
\* LATEX_SNIPPETS, each snippet by a short name of its formula
LATEX_SNIPPETS ==
    << "sigmoid", "mse", "bayes", "sgd", "varapprox",
       "elbo", "rbf", "relu", "softmax", "sign" >>
\* for (int i = 0; i < 30 && ...)
WaitSteps == 30
\* sleep_for(100ms), in units of 100 ms
StepTime == 1
\* sleep_for(1s), in units of 100 ms
IdleTime == 10
\* sleep_for(2s), in units of 100 ms
BackoffTime == 20

(* --------------------------- input domains ----------------------------- *)
\* img.cols and img.rows of every rendered page
ImgW == 2
ImgH == 1
\* the pointer positions the input backend reports (x, y); some lie outside
\* the image, as a drag that leaves the window does
Points == { <<-1, 0>>, <<3, 2>> }
\* the richer pointer positions of the runs of annotate_pdf alone
DrawPoints == { <<-1, 0>>, <<1, 1>>, <<3, 2>> }

VARIABLES
    \* ---- main thread ----
    mpc,         \* position of main / annotate_pdf
    exitCode,    \* "" while the process runs, then how it ended
    page_count,  \* annotate_pdf: page_count
    slide_idx,   \* annotate_pdf: slide_idx
    boxes_,      \* BoxDrawer::boxes_
    start_,      \* BoxDrawer::start_ (<<>> = nullopt, <<p>> = a point)
    boxes,       \* annotate_pdf: boxes (out_boxes of run)
    action,      \* annotate_pdf: action ("" while no session has returned)
    bi,          \* save_crops: position in boxes of the range-for
    crop_idx,    \* save_crops: crop_idx
    written,     \* history: the stems save_crops wrote in this invocation
    \* ---- shared ----
    stop_flag,   \* main: stop_flag
    dirExists,   \* the output directory exists
    png,         \* Crop Files: stem -> content (the cropped rectangle)
    pngWrites,   \* history: stem -> times written (counted to 2)
    tex,         \* Result Files: stem -> content (sequence of lines)
    \* ---- worker thread ----
    wpc,         \* position of ocr_worker
    todo,        \* entries the directory_iterator has still to yield
    work_found,  \* ocr_worker: work_found
    cur,         \* ocr_worker: the entry being processed (<<>> or <<stem>>)
    latex,       \* ocr_worker: latex
    i,           \* ocr_worker: i of the wait loop
    index,       \* next_latex_snippet: static index
    ioFaults,    \* Result File opens the file system will still refuse
    \* ---- observers ----
    sinceStop,   \* time since stop_flag was set while the worker still runs
                 \* (counted to BackoffTime + 1)
    stopAt,      \* wpc at the moment stop_flag was set ("" before)
    aborted,     \* the entry whose processing the stop flag cut (<<>> or <<stem>>)
    snap,        \* during a pass: the Crop Files that had no Result File
                 \* when it started
    late         \* during a pass: the items it has processed, wholly or in
                 \* part, while a Crop File waited for the next pass
                 \* (counted to 2)

mainVars == <<mpc, exitCode, page_count, slide_idx, boxes_, start_,
              boxes, action, bi, crop_idx, written>>
fsVars == <<dirExists, png, pngWrites, tex>>
workerVars == <<wpc, todo, work_found, cur, latex, i, index, ioFaults>>
obsVars == <<sinceStop, stopAt, aborted, snap, late>>
vars == <<mainVars, stop_flag, fsVars, workerVars, obsVars>>

(* ------------------------------ helpers -------------------------------- *)
Min(a, b) == IF a < b THEN a ELSE b
Max(a, b) == IF a > b THEN a ELSE b
\* std::clamp(v, lo, hi)
Clamp(v, lo, hi) == IF v < lo THEN lo ELSE IF hi < v THEN hi ELSE v

\* mutant of Put: the write replaces the directory listing by the one file
Put_Alone(f, k, v) == [x \in {k} |-> v]

\* the file f with entry k (over)written by v
Put(f, k, v) == [x \in DOMAIN f \cup {k} |-> IF x = k THEN v ELSE f[x]]

RECURSIVE Digits(_)
\* printf %d of n >= 0, as the sequence of its decimal digits
Digits(n) == IF n < 10 THEN <<n>> ELSE Digits(n \div 10) \o <<n % 10>>

\* printf %03d of n >= 0: at least three digits, zero padded
Fmt03d(n) ==
    LET d == Digits(n)
    IN  IF Len(d) >= 3 THEN d
        ELSE [k \in 1..(3 - Len(d)) |-> 0] \o d

\* mutant of CropStem: the ordinal is left out of the name
CropStem_NoOrdinal(sidx, cidx) ==
    [slide |-> Fmt03d(sidx + 1), crop |-> Digits(1)]

\* snprintf(fname, "slide_%03d_crop_%d.png", slide_idx + 1, crop_idx) without
\* the extension: the stem a Crop File shares with its Result File
CropStem(sidx, cidx) == [slide |-> Fmt03d(sidx + 1), crop |-> Digits(cidx)]

\* save_crops: the clamped rectangle <<x1, y1, x2, y2>> of box <<p1, p2>>
ClampedRect(b) ==
    LET p1 == b[1]
        p2 == b[2]
    IN  << Clamp(Min(p1[1], p2[1]), 0, ImgW),
           Clamp(Min(p1[2], p2[2]), 0, ImgH),
           Clamp(Max(p1[1], p2[1]), 0, ImgW),
           Clamp(Max(p1[2], p2[2]), 0, ImgH) >>

\* mutant of EmptyCrop: only the width is tested
EmptyCrop_WidthOnly(r) == r[3] - r[1] = 0

\* save_crops: "if (x2 - x1 == 0 || y2 - y1 == 0) continue;"
EmptyCrop(r) == r[3] - r[1] = 0 \/ r[4] - r[2] = 0

\* the directory_iterator of the worker is alive
Iterating == wpc \in {"iter", "wait", "nap", "check", "open", "write"}

\* the worker thread has been started and has not returned
WorkerRuns == wpc \notin {"none", "done", "killed"}

\* the Crop Files without Result File that the worker will not reach before
\* it starts another pass: those its directory_iterator does not yield, or
\* all of them while it sleeps between two passes
Waiting ==
    {s \in DOMAIN png :
        /\ s \notin DOMAIN tex
        /\ IF Iterating THEN s \notin todo /\ cur # <<s>>
           ELSE wpc \in {"backoff", "idle"}}

\* an empty directory listing
NoFiles == [x \in {} |-> <<>>]

(* -------------------------------- Init --------------------------------- *)
Init ==
    /\ mpc = "start"
    /\ exitCode = ""
    /\ page_count = 0
    /\ slide_idx = 0
    /\ boxes_ = <<>>
    /\ start_ = <<>>
    /\ boxes = <<>>
    /\ action = ""
    /\ bi = 1
    /\ crop_idx = 1
    /\ written = <<>>
    /\ stop_flag = FALSE
    /\ dirExists = FALSE
    /\ png = NoFiles
    /\ pngWrites = NoFiles
    /\ tex = NoFiles
    /\ wpc = "none"
    /\ todo = {}
    /\ work_found = FALSE
    /\ cur = <<>>
    /\ latex = ""
    /\ i = 0
    /\ index = 0
    /\ ioFaults = 0
    /\ sinceStop = 0
    /\ stopAt = ""
    /\ aborted = <<>>
    /\ snap = {}
    /\ late = 0

(* ============================ main thread ============================== *)

\* main: "if (!fs::exists(cmd.pdf)) return 1;"
MainCheckPdf ==
    /\ mpc = "start"
    /\ \E found \in BOOLEAN :
          IF found
          THEN /\ mpc' = "mkdir"
               /\ exitCode' = exitCode
          ELSE /\ mpc' = "exit"
               /\ exitCode' = "1"
    /\ UNCHANGED <<page_count, slide_idx, boxes_, start_, boxes, action, bi,
                   crop_idx, written, stop_flag, fsVars, workerVars, obsVars>>

\* main: fs::create_directories(cmd.outdir); a failure throws, and the
\* handler of main returns 1 (no thread exists yet)
MainCreateDir ==
    /\ mpc = "mkdir"
    /\ \E ok \in BOOLEAN :
          IF ok
          THEN /\ dirExists' = TRUE
               /\ mpc' = "spawn"
               /\ exitCode' = exitCode
          ELSE /\ dirExists' = dirExists
               /\ mpc' = "exit"
               /\ exitCode' = "1"
    /\ UNCHANGED <<page_count, slide_idx, boxes_, start_, boxes, action, bi,
                   crop_idx, written, stop_flag, png, pngWrites, tex,
                   workerVars, obsVars>>

\* main: std::atomic_bool stop_flag{false}; std::thread worker(ocr_worker, ...)
MainSpawn ==
    /\ mpc = "spawn"
    /\ mpc' = "open"
    /\ stop_flag' = FALSE
    /\ wpc' = "while"
    /\ UNCHANGED <<exitCode, page_count, slide_idx, boxes_, start_, boxes,
                   action, bi, crop_idx, written, fsVars, todo, work_found,
                   cur, latex, i, index, ioFaults, obsVars>>

\* annotate_pdf up to the loop: the document is opened and its pages are
\* counted.  A document that cannot be opened, or has no page, throws; the
\* exception leaves the try block of main while `worker` is joinable, so the
\* destructor of std::thread calls std::terminate and the process aborts,
\* the worker thread with it.
AnnotateOpen ==
    /\ mpc = "open"
    /\ \E opened \in BOOLEAN, n \in 0..MaxPages :
          IF opened /\ n > 0
          THEN /\ page_count' = n
               /\ slide_idx' = 0
               /\ mpc' = "loop"
               /\ UNCHANGED <<exitCode, wpc>>
          ELSE /\ mpc' = "exit"
               /\ exitCode' = "SIGABRT"
               /\ wpc' = "killed"
               /\ UNCHANGED <<page_count, slide_idx>>
    /\ UNCHANGED <<boxes_, start_, boxes, action, bi, crop_idx, written,
                   stop_flag, fsVars, todo, work_found, cur, latex, i, index,
                   ioFaults, obsVars>>

\* annotate_pdf: "while (slide_idx >= 0 && slide_idx < page_count)", then the
\* page is rendered and a BoxDrawer is constructed for it; when the condition
\* fails annotate_pdf returns to main
AnnotateLoop ==
    /\ mpc = "loop"
    /\ IF slide_idx >= 0 /\ slide_idx < page_count
       THEN /\ mpc' = "session"
            /\ boxes_' = <<>>
            /\ start_' = <<>>
            /\ boxes' = <<>>
            /\ action' = ""
       ELSE /\ mpc' = "stop"
            /\ UNCHANGED <<boxes_, start_, boxes, action>>
    /\ UNCHANGED <<exitCode, page_count, slide_idx, bi, crop_idx,
                   written, stop_flag, fsVars, workerVars, obsVars>>

sessionFrame == <<exitCode, page_count, slide_idx, bi, crop_idx, written,
                  stop_flag, fsVars, workerVars, obsVars>>

\* BoxDrawer::mouseCallback, EVENT_LBUTTONDOWN at p
MouseDown(p) ==
    /\ mpc = "session"
    /\ start_' = <<p>>
    /\ UNCHANGED <<mpc, boxes_, boxes, action, sessionFrame>>

\* mutant of MouseUp: the anchor is not reset after the box is appended
MouseUp_KeepsAnchor(p, cap) ==
    /\ mpc = "session"
    /\ start_ = <<>> \/ Len(boxes_) < cap
    /\ IF start_ # <<>>
       THEN boxes_' = Append(boxes_, <<start_[1], p>>)
       ELSE UNCHANGED boxes_
    /\ UNCHANGED <<mpc, start_, boxes, action, sessionFrame>>

\* BoxDrawer::mouseCallback, EVENT_LBUTTONUP at p; cap bounds the box list
MouseUp(p, cap) ==
    /\ mpc = "session"
    /\ start_ = <<>> \/ Len(boxes_) < cap
    /\ IF start_ # <<>>
       THEN /\ boxes_' = Append(boxes_, <<start_[1], p>>)
            /\ start_' = <<>>
       ELSE UNCHANGED <<boxes_, start_>>
    /\ UNCHANGED <<mpc, boxes, action, sessionFrame>>

\* mutant of KeyUndo: the oldest box is removed instead of the last
KeyUndo_DropsFirst ==
    /\ mpc = "session"
    /\ boxes_' = IF boxes_ # <<>> THEN Tail(boxes_) ELSE boxes_
    /\ UNCHANGED <<mpc, start_, boxes, action, sessionFrame>>

\* BoxDrawer::run, key == Key::UNDO
KeyUndo ==
    /\ mpc = "session"
    /\ boxes_' = IF boxes_ # <<>> THEN SubSeq(boxes_, 1, Len(boxes_) - 1)
                 ELSE boxes_
    /\ UNCHANGED <<mpc, start_, boxes, action, sessionFrame>>

\* BoxDrawer::run, key == Key::CLEAR
KeyClear ==
    /\ mpc = "session"
    /\ boxes_' = <<>>
    /\ UNCHANGED <<mpc, start_, boxes, action, sessionFrame>>

\* mutant of NextIndex: BACK is not stopped at index 0
NextIndex_NoClamp(act, idx) ==
    IF act = "back" THEN idx - 1
    ELSE IF act = "next" THEN idx + 1
    ELSE idx

\* annotate_pdf: the end of one iteration, "if (action == "back" &&
\* slide_idx > 0) --slide_idx; else if (action == "next") ++slide_idx;"
NextIndex(act, idx) ==
    IF act = "back" /\ idx > 0 THEN idx - 1
    ELSE IF act = "next" THEN idx + 1
    ELSE idx

\* annotate_pdf once run has returned act and filled out_boxes with out:
\* quit breaks out of the loop; a non-empty box list enters save_crops;
\* otherwise the index is adjusted.  The drawer is not used again, its
\* fields are dropped here.
Ran(act, out) ==
    /\ mpc = "session"
    /\ action' = act
    /\ boxes' = out
    /\ boxes_' = <<>>
    /\ start_' = <<>>
    /\ IF act = "quit"
       THEN /\ mpc' = "stop"
            /\ UNCHANGED <<slide_idx, bi, crop_idx, written>>
       ELSE IF out # <<>>
       THEN /\ mpc' = "save"
            /\ bi' = 1
            /\ crop_idx' = 1
            /\ written' = <<>>
            /\ UNCHANGED slide_idx
       ELSE /\ mpc' = "loop"
            /\ slide_idx' = NextIndex(act, slide_idx)
            /\ UNCHANGED <<bi, crop_idx, written>>
    /\ UNCHANGED <<exitCode, page_count, stop_flag, fsVars, workerVars,
                   obsVars>>

\* BoxDrawer::run, key == Key::NEXT: out_boxes = boxes_; return "next"
KeyNext == Ran("next", boxes_)

\* BoxDrawer::run, key == Key::PREV: out_boxes = boxes_; return "back"
KeyPrev == Ran("back", boxes_)

\* mutant of KeyEsc: out_boxes is filled as for the other keys
KeyEsc_KeepsBoxes == Ran("quit", boxes_)

\* BoxDrawer::run, key == Key::ESC: out_boxes.clear(); return "quit"
KeyEsc == Ran("quit", <<>>)

\* save_crops: one iteration of the range-for over boxes.  An empty crop is
\* skipped; otherwise cv::imwrite (over)writes the Crop File.  A directory
\* entry that is new while the worker is enumerating may or may not be
\* yielded by its directory_iterator (unspecified).
SaveCrop ==
    /\ mpc = "save"
    /\ bi <= Len(boxes)
    /\ LET r == ClampedRect(boxes[bi])
           stem == CropStem(slide_idx, crop_idx)
       IN  IF EmptyCrop(r)
           THEN UNCHANGED <<crop_idx, written, png, pngWrites, todo, late>>
           ELSE /\ crop_idx' = crop_idx + 1
                /\ written' = Append(written, stem)
                /\ png' = Put(png, stem, r)
                /\ pngWrites' = Put(pngWrites, stem,
                                    IF stem \in DOMAIN pngWrites THEN 2 ELSE 1)
                /\ IF Iterating /\ stem \notin DOMAIN png
                   THEN \E seen \in BOOLEAN :
                           IF seen
                           THEN todo' = todo \cup {stem} /\ late' = late
                           ELSE /\ todo' = todo
                                /\ late' = IF wpc \in {"wait", "nap"}
                                           THEN Max(late, 1) ELSE late
                   ELSE UNCHANGED <<todo, late>>
    /\ bi' = bi + 1
    /\ UNCHANGED <<mpc, exitCode, page_count, slide_idx, boxes_, start_,
                   boxes, action, stop_flag, dirExists, tex, wpc, work_found,
                   cur, latex, i, index, ioFaults, sinceStop, stopAt,
                   aborted, snap>>

\* save_crops returns (its locals go out of scope); annotate_pdf adjusts
\* the index
SaveDone ==
    /\ mpc = "save"
    /\ bi > Len(boxes)
    /\ mpc' = "loop"
    /\ slide_idx' = NextIndex(action, slide_idx)
    /\ bi' = 1
    /\ crop_idx' = 1
    /\ written' = <<>>
    /\ UNCHANGED <<exitCode, page_count, boxes_, start_, boxes, action,
                   stop_flag, fsVars, workerVars, obsVars>>

\* main: stop_flag.store(true)
MainStop ==
    /\ mpc = "stop"
    /\ stop_flag' = TRUE
    /\ stopAt' = wpc
    /\ mpc' = "join"
    /\ UNCHANGED <<exitCode, page_count, slide_idx, boxes_, start_, boxes,
                   action, bi, crop_idx, written, fsVars, workerVars,
                   sinceStop, aborted, snap, late>>

\* main: worker.join(); return 0
MainJoin ==
    /\ mpc = "join"
    /\ wpc = "done"
    /\ mpc' = "exit"
    /\ exitCode' = "0"
    /\ UNCHANGED <<page_count, slide_idx, boxes_, start_, boxes, action, bi,
                   crop_idx, written, stop_flag, fsVars, workerVars, obsVars>>

\* the events of one session: the pointer at positions pts, and the keys
Session(pts, cap) ==
    \/ \E p \in pts : MouseDown(p)
    \/ \E p \in pts : MouseUp(p, cap)
    \/ KeyUndo
    \/ KeyClear
    \/ KeyNext
    \/ KeyPrev
    \/ KeyEsc

Main ==
    \/ MainCheckPdf
    \/ MainCreateDir
    \/ MainSpawn
    \/ AnnotateOpen
    \/ AnnotateLoop
    \/ Session(Points, MaxBoxes)
    \/ SaveCrop
    \/ SaveDone
    \/ MainStop
    \/ MainJoin

(* =========================== worker thread ============================= *)

\* mutants of TexExists: the check always succeeds, or always fails
TexExists_Always(e) == TRUE
TexExists_Never(e) == FALSE

\* ocr_worker: "fs::exists(tex_path)" for the entry with stem e
TexExists(e) == e \in DOMAIN tex

\* the time d of a sleep that ends now, added to the time since the stop
\* flag was set (counted to one more than the longest sleep)
Elapse(d) ==
    IF stop_flag THEN Min(sinceStop + d, BackoffTime + 1) ELSE sinceStop

\* ocr_worker after the for loop over the directory:
\* "if (!work_found) sleep_for(1s);"
AfterPass(found) == IF found THEN "while" ELSE "idle"

\* mutant of WorkerLoop: the loop condition does not look at the stop flag
WorkerLoop_NoStop ==
    /\ wpc = "while"
    /\ wpc' = "iter"
    /\ work_found' = FALSE
    /\ todo' = DOMAIN png
    /\ snap' = {s \in DOMAIN png : s \notin DOMAIN tex}
    /\ UNCHANGED <<mainVars, stop_flag, fsVars, cur, latex, i, index,
                   ioFaults, sinceStop, stopAt, aborted, late>>

\* ocr_worker: "while (!stop_flag.load())", "if (!fs::exists(folder))",
\* and the construction of the directory_iterator
WorkerLoop ==
    /\ wpc = "while"
    /\ IF stop_flag
       THEN /\ wpc' = "done"
            /\ UNCHANGED <<todo, work_found, snap>>
       ELSE IF ~dirExists
       THEN /\ wpc' = "backoff"
            /\ UNCHANGED <<todo, work_found, snap>>
       ELSE /\ wpc' = "iter"
            /\ work_found' = FALSE
            /\ todo' = DOMAIN png
            /\ snap' = {s \in DOMAIN png : s \notin DOMAIN tex}
    /\ UNCHANGED <<mainVars, stop_flag, fsVars, cur, latex, i, index,
                   ioFaults, sinceStop, stopAt, aborted, late>>

\* ocr_worker: the end of a sleep between two passes, sleep_for(2s) while
\* the folder is missing or sleep_for(1s) after a pass that found no work
WorkerSleepWake ==
    /\ wpc \in {"backoff", "idle"}
    /\ wpc' = "while"
    /\ sinceStop' = Elapse(IF wpc = "backoff" THEN BackoffTime ELSE IdleTime)
    /\ UNCHANGED <<mainVars, stop_flag, fsVars, todo, work_found, cur, latex,
                   i, index, ioFaults, stopAt, aborted, snap, late>>

\* mutant of next_latex_snippet: the index is not kept between calls
next_latex_snippet_Stuck(idx) == LATEX_SNIPPETS[1]

\* next_latex_snippet: the snippet returned for the static index idx
\* (the index itself is advanced by the caller's step)
next_latex_snippet(idx) == LATEX_SNIPPETS[(idx % Len(LATEX_SNIPPETS)) + 1]

\* ocr_worker: the directory_iterator yields its next entry (in any order),
\* or ends.  Per entry: the stop check, the extension check (only the .png
\* entries are kept in todo: every other entry is skipped by it), the
\* existence check of the .tex file, and the call of next_latex_snippet.
WorkerNextEntry ==
    /\ wpc = "iter"
    /\ IF todo = {}
       THEN /\ wpc' = AfterPass(work_found)
            /\ snap' = {}
            /\ late' = 0
            /\ UNCHANGED <<todo, work_found, cur, latex, i, index>>
       ELSE \E e \in todo :
               IF stop_flag
               THEN /\ wpc' = AfterPass(work_found)
                    /\ todo' = {}
                    /\ snap' = {}
                    /\ late' = 0
                    /\ UNCHANGED <<work_found, cur, latex, i, index>>
               ELSE IF TexExists(e)
               THEN /\ todo' = todo \ {e}
                    /\ UNCHANGED <<wpc, work_found, cur, latex, i, index,
                                   snap, late>>
               ELSE /\ todo' = todo \ {e}
                    /\ work_found' = TRUE
                    /\ cur' = <<e>>
                    /\ latex' = next_latex_snippet(index)
                    /\ index' = index + 1
                    /\ i' = 0
                    /\ wpc' = "wait"
                    /\ snap' = snap
                    /\ late' = IF Waiting = {} THEN late
                               ELSE Min(late + 1, 2)
    /\ UNCHANGED <<mainVars, stop_flag, fsVars, ioFaults, sinceStop, stopAt,
                   aborted>>

\* mutant of WaitCond: the stop flag is not looked at during the wait
WaitCond_NoStop(n) == n < WaitSteps

\* ocr_worker: the condition of "for (int i = 0; i < 30 && !stop_flag.load();
\* ++i)" at value n of i
WaitCond(n) == n < WaitSteps /\ ~stop_flag

\* ocr_worker: the first evaluation of the loop condition (i = 0); when it
\* holds the worker goes to sleep for 100 ms
WorkerWaitCheck ==
    /\ wpc = "wait"
    /\ wpc' = IF WaitCond(i) THEN "nap" ELSE "check"
    /\ UNCHANGED <<mainVars, stop_flag, fsVars, todo, work_found, cur, latex,
                   i, index, ioFaults, obsVars>>

\* ocr_worker: the end of sleep_for(100ms), ++i, and the loop condition
\* again: the next sleep, or the end of the wait
WorkerNapWake ==
    /\ wpc = "nap"
    /\ i' = i + 1
    /\ wpc' = IF WaitCond(i + 1) THEN "nap" ELSE "check"
    /\ sinceStop' = Elapse(StepTime)
    /\ UNCHANGED <<mainVars, stop_flag, fsVars, todo, work_found, cur, latex,
                   index, ioFaults, stopAt, aborted, snap, late>>

\* mutants of BreakAfterWait: the check is missing, or inverted
BreakAfterWait_Never(stopped) == FALSE
BreakAfterWait_Inverted(stopped) == ~stopped

\* ocr_worker: "if (stop_flag.load()) break;" after the wait, for the value
\* stopped the load returns
BreakAfterWait(stopped) == stopped

\* ocr_worker: the check of the stop flag after the wait; the break leaves
\* the for loop over the directory (the locals of its body go out of scope)
WorkerCheckStop ==
    /\ wpc = "check"
    /\ IF BreakAfterWait(stop_flag)
       THEN /\ wpc' = AfterPass(work_found)
            /\ todo' = {}
            /\ aborted' = cur
            /\ snap' = {}
            /\ late' = 0
            /\ cur' = <<>>
            /\ latex' = ""
            /\ i' = 0
       ELSE /\ wpc' = "open"
            /\ UNCHANGED <<todo, cur, latex, i, aborted, snap, late>>
    /\ UNCHANGED <<mainVars, stop_flag, fsVars, work_found, index,
                   ioFaults, sinceStop, stopAt>>

\* mutant of WorkerOpen: a refused open throws, and the exception ends the
\* worker thread (and with it the process)
WorkerOpen_Throws ==
    /\ wpc = "open"
    /\ \E ok \in (IF ioFaults > 0 THEN BOOLEAN ELSE {TRUE}) :
          IF ok
          THEN /\ tex' = Put(tex, cur[1], <<>>)
               /\ wpc' = "write"
               /\ UNCHANGED ioFaults
          ELSE /\ ioFaults' = ioFaults - 1
               /\ wpc' = "killed"
               /\ UNCHANGED tex
    /\ UNCHANGED <<mainVars, stop_flag, dirExists, png, pngWrites, todo,
                   work_found, cur, latex, i, index, obsVars>>

\* ocr_worker: "std::ofstream ofs(tex_path);" creates the file, empty.  When
\* the file system refuses, the stream is in a failed state, the insertion
\* does nothing and no file appears; nothing is thrown.
WorkerOpen ==
    /\ wpc = "open"
    /\ \E ok \in (IF ioFaults > 0 THEN BOOLEAN ELSE {TRUE}) :
          IF ok
          THEN /\ tex' = Put(tex, cur[1], <<>>)
               /\ wpc' = "write"
               /\ UNCHANGED <<cur, latex, i, ioFaults>>
          ELSE /\ ioFaults' = ioFaults - 1
               /\ wpc' = "iter"
               /\ cur' = <<>>
               /\ latex' = ""
               /\ i' = 0
               /\ UNCHANGED tex
    /\ UNCHANGED <<mainVars, stop_flag, dirExists, png, pngWrites, todo,
                   work_found, index, obsVars>>

\* ocr_worker: "ofs << latex << '\n';" and the close of the stream at the
\* end of the loop body: the line reaches the file, the locals of the body
\* go out of scope
WorkerWrite ==
    /\ wpc = "write"
    /\ tex' = Put(tex, cur[1], <<latex>>)
    /\ cur' = <<>>
    /\ latex' = ""
    /\ i' = 0
    /\ wpc' = "iter"
    /\ UNCHANGED <<mainVars, stop_flag, dirExists, png, pngWrites, todo,
                   work_found, index, ioFaults, obsVars>>

Worker ==
    \/ WorkerLoop
    \/ WorkerSleepWake
    \/ WorkerNextEntry
    \/ WorkerWaitCheck
    \/ WorkerNapWake
    \/ WorkerCheckStop
    \/ WorkerOpen
    \/ WorkerWrite

(* ========================== specifications ============================= *)
Next == Main \/ Worker

Spec == Init /\ [][Next]_vars

\* the scheduler is fair to the worker thread
FairSpec == Spec /\ WF_vars(Worker)

\* the scheduler is fair to the worker thread, and to main when it is
\* blocked in worker.join() and the worker has returned
FairSpecJoin == FairSpec /\ WF_vars(MainJoin)

\* annotate_pdf alone, from its loop on, with a richer user: the runs of the
\* program in which the worker thread, though started, is not scheduled
\* before annotate_pdf returns
InitAnnotate ==
    /\ mpc = "loop"
    /\ exitCode = ""
    /\ page_count \in 1..MaxPages
    /\ slide_idx = 0
    /\ boxes_ = <<>>
    /\ start_ = <<>>
    /\ boxes = <<>>
    /\ action = ""
    /\ bi = 1
    /\ crop_idx = 1
    /\ written = <<>>
    /\ stop_flag = FALSE
    /\ dirExists = TRUE
    /\ png = NoFiles
    /\ pngWrites = NoFiles
    /\ tex = NoFiles
    /\ wpc = "while"
    /\ todo = {}
    /\ work_found = FALSE
    /\ cur = <<>>
    /\ latex = ""
    /\ i = 0
    /\ index = 0
    /\ ioFaults = 0
    /\ sinceStop = 0
    /\ stopAt = ""
    /\ aborted = <<>>
    /\ snap = {}
    /\ late = 0

NextAnnotate ==
    \/ AnnotateLoop
    \/ Session(DrawPoints, MaxDraw)
    \/ SaveCrop
    \/ SaveDone

SpecAnnotate == InitAnnotate /\ [][NextAnnotate]_vars

\* the boxes of a first visit of page 1 that exports two Crop Files
BacklogBoxes ==
    << << <<-1, 0>>, <<1, 1>> >>, << <<-1, 0>>, <<3, 2>> >> >>

\* the whole program with a backlog: from the return of save_crops after
\* the user has drawn BacklogBoxes on page 1 and pressed NEXT, in the runs
\* in which the worker thread, though started, has not been scheduled yet
InitBacklog ==
    /\ mpc = "loop"
    /\ exitCode = ""
    /\ page_count = MaxPages
    /\ slide_idx = 1
    /\ boxes_ = <<>>
    /\ start_ = <<>>
    /\ boxes = BacklogBoxes
    /\ action = "next"
    /\ bi = 1
    /\ crop_idx = 1
    /\ written = <<>>
    /\ stop_flag = FALSE
    /\ dirExists = TRUE
    /\ png = [s \in {CropStem(0, 1), CropStem(0, 2)} |->
                 ClampedRect(BacklogBoxes[s.crop[1]])]
    /\ pngWrites = [s \in {CropStem(0, 1), CropStem(0, 2)} |-> 1]
    /\ tex = NoFiles
    /\ wpc = "while"
    /\ todo = {}
    /\ work_found = FALSE
    /\ cur = <<>>
    /\ latex = ""
    /\ i = 0
    /\ index = 0
    /\ ioFaults = 0
    /\ sinceStop = 0
    /\ stopAt = ""
    /\ aborted = <<>>
    /\ snap = {}
    /\ late = 0

NextBacklog ==
    \/ AnnotateLoop
    \/ Session(Points, MaxBoxes)
    \/ SaveCrop
    \/ SaveDone
    \/ MainStop
    \/ MainJoin
    \/ Worker

SpecBacklog == InitBacklog /\ [][NextBacklog]_vars

\* the whole program on a one-page document whose file system refuses up to
\* MaxFaults opens of a Result File: from the return of save_crops after
\* the user has drawn BacklogBoxes on the page and pressed BACK, in the
\* runs in which the worker thread, though started, has not been scheduled
\* yet
InitIO ==
    /\ mpc = "loop"
    /\ exitCode = ""
    /\ page_count = 1
    /\ slide_idx = 0
    /\ boxes_ = <<>>
    /\ start_ = <<>>
    /\ boxes = BacklogBoxes
    /\ action = "back"
    /\ bi = 1
    /\ crop_idx = 1
    /\ written = <<>>
    /\ stop_flag = FALSE
    /\ dirExists = TRUE
    /\ png = [s \in {CropStem(0, 1), CropStem(0, 2)} |->
                 ClampedRect(BacklogBoxes[s.crop[1]])]
    /\ pngWrites = [s \in {CropStem(0, 1), CropStem(0, 2)} |-> 1]
    /\ tex = NoFiles
    /\ wpc = "while"
    /\ todo = {}
    /\ work_found = FALSE
    /\ cur = <<>>
    /\ latex = ""
    /\ i = 0
    /\ index = 0
    /\ ioFaults = MaxFaults
    /\ sinceStop = 0
    /\ stopAt = ""
    /\ aborted = <<>>
    /\ snap = {}
    /\ late = 0

SpecIO == InitIO /\ [][NextBacklog]_vars

\* the same, the scheduler being fair to the worker thread
FairSpecIO == SpecIO /\ WF_vars(Worker)

TypeOK ==
    /\ mpc \in {"start", "mkdir", "spawn", "open", "loop", "session",
                "save", "stop", "join", "exit"}
    /\ wpc \in {"none", "while", "backoff", "iter", "wait", "nap", "check",
                "open", "write", "idle", "done", "killed"}
    /\ i \in 0..WaitSteps
    /\ Len(boxes_) <= MaxDraw

(* ============================== claims ================================= *)

\* the stems a run of the whole program can give a Crop File
Stems == { CropStem(p, c) : p \in 0..(MaxPages - 1), c \in 1..MaxBoxes }

\* the Result File of stem s exists and holds its whole label line
Complete(s) == s \in DOMAIN tex /\ tex[s] # <<>>

\* every Crop File of the directory has a Result File
AllProcessed == \A s \in DOMAIN png : s \in DOMAIN tex

NoDup(q) == \A a, b \in 1..Len(q) : q[a] = q[b] => a = b

\* C1: under a fair scheduler, every Crop File the exporter has written
\* eventually has a Result File of the same stem, unless the stop flag is set
\* before the worker finishes the item.
C1_CropEventuallyProcessed ==
    \A s \in Stems :
        [](s \in DOMAIN png => <>(Complete(s) \/ stop_flag))

\* C1 witness: a Crop File has got its Result File while the stop flag is
\* not set.
C1_Witness ==
    \E s \in DOMAIN png : Complete(s) /\ ~stop_flag

\* C2 as claimed: no Crop File name is ever written twice by the exporter,
\* whatever the sequence of visits.
C2_NeverRewritten ==
    \A s \in DOMAIN pngWrites : pngWrites[s] <= 1

\* C2 amended: within one invocation of save_crops (one visit of a page) no
\* Crop File name is written twice, and every name written there is a file
\* of the directory; a later visit of the same page writes the same names
\* again.
C2_OncePerVisit ==
    /\ NoDup(written)
    /\ \A k \in 1..Len(written) :
          /\ written[k] \in DOMAIN png
          /\ written[k].slide = Fmt03d(slide_idx + 1)

\* C2 witness: a revisit has overwritten a Crop File of an earlier visit, in
\* an invocation that wrote two files.
C2_Witness ==
    /\ Len(written) = 2
    /\ pngWrites[written[1]] = 2

\* C3: the worker never opens a Result File whose name exists in the
\* directory, and a Result File that holds its line never changes or
\* disappears.
C3_ResultWrittenOnce ==
    /\ [](wpc = "open" => cur[1] \notin DOMAIN tex)
    /\ [][\A s \in DOMAIN tex :
             tex[s] # <<>> => (s \in DOMAIN tex' /\ tex'[s] = tex[s])]_vars

\* C3 witness: the worker has ended a pass that found no work over a
\* directory that holds a Result File, and is about to enumerate it again.
C3_Witness ==
    /\ wpc = "idle"
    /\ \E s \in DOMAIN png : Complete(s)

\* C4 as claimed: whatever the worker was doing when the stop flag was set,
\* it terminates within one increment (100 ms).
C4_StopWithinOneStep == sinceStop <= StepTime

\* C4 amended: the worker terminates within one increment when the stop
\* flag is set while it processes an item (the wait and the write), within
\* the 2 s of the backoff sleep when it waits for the directory, and within
\* the 1 s of the idle sleep otherwise.
C4_StopLatency ==
    sinceStop <=
        (IF stopAt \in {"wait", "nap", "check", "open", "write"} THEN StepTime
         ELSE IF stopAt = "backoff" THEN BackoffTime
         ELSE IdleTime)

\* C4 witness: the stop flag was set during a 100 ms sleep of the wait, and
\* the worker has terminated one increment later.
C4_Witness ==
    /\ stopAt = "nap"
    /\ wpc = "done"
    /\ sinceStop = StepTime

\* C5: a Result File is only written after the full wait (a wait cut by
\* the stop flag writes none); once the stop flag has cut the processing of
\* an item, that item has no Result File, no entry is left to enumerate and
\* the worker is at its loop condition or has returned.
C5_AbortLeavesLoop ==
    /\ wpc \in {"open", "write"} => i = WaitSteps /\ aborted = <<>>
    /\ aborted # <<>> =>
          /\ stop_flag
          /\ wpc \in {"while", "done"}
          /\ aborted[1] \notin DOMAIN tex
          /\ todo = {}
          /\ cur = <<>>

\* C5 witness: the stop flag was set during a sleep of the wait, and the
\* worker has returned leaving the item without Result File.
C5_Witness ==
    /\ aborted # <<>>
    /\ stopAt = "nap"
    /\ wpc = "done"

C7_IdempotentPass ==
    [][(wpc = "iter" /\ AllProcessed)
          => /\ tex' = tex
             /\ index' = index
             /\ wpc' \in {"iter", "idle", "while", "killed"}]_vars

\* C7 witness: a pass over a non-empty, fully processed directory has ended
\* without work.
C7_Witness ==
    /\ wpc = "idle"
    /\ DOMAIN png # {}
    /\ AllProcessed

\* C8: a page is only shown at an index in [0, page_count); when an
\* iteration ends, NEXT has added 1 and BACK has subtracted 1, except that
\* BACK at index 0 leaves 0; BACK at 0 with boxes still enters save_crops;
\* at index page_count the loop ends.
C8_Navigation ==
    /\ [](mpc \in {"session", "save"} =>
             slide_idx >= 0 /\ slide_idx < page_count)
    /\ [][(mpc \in {"session", "save"} /\ mpc' = "loop") =>
             /\ action' = "next" => slide_idx' = slide_idx + 1
             /\ action' = "back" /\ slide_idx > 0 => slide_idx' = slide_idx - 1
             /\ action' = "back" /\ slide_idx = 0 => slide_idx' = 0]_vars
    /\ [][(mpc = "session" /\ action' = "back" /\ boxes_ # <<>>) =>
             (mpc' = "save" /\ boxes' = boxes_ /\ slide_idx' = slide_idx)]_vars
    /\ [][(mpc = "loop" /\ slide_idx = page_count /\ mpc' # mpc)
             => mpc' = "stop"]_vars

\* C8 witness: BACK at index 0 has exported a box of that visit.
C8_Witness ==
    /\ mpc = "save"
    /\ action = "back"
    /\ slide_idx = 0
    /\ written # <<>>

\* C9: a session that ends with QUIT returns no box, whatever was drawn;
\* annotate_pdf leaves its loop at once: save_crops is not entered, no page
\* is shown again, and no Crop File is written.
C9_QuitExportsNothing ==
    /\ [](action = "quit" =>
             boxes = <<>> /\ mpc \in {"stop", "join", "exit"})
    /\ [][action' = "quit" =>
             (png' = png /\ pngWrites' = pngWrites
              /\ slide_idx' = slide_idx)]_vars

\* C9 witness: QUIT was pressed on a later page than the first, after a
\* Crop File had been exported.
C9_Witness ==
    /\ action = "quit"
    /\ slide_idx > 0
    /\ DOMAIN png # {}

\* the boxes among the first n of q whose clamped width and height are
\* both positive
RECURSIVE Accepted(_, _)
Accepted(q, n) ==
    IF n = 0 THEN <<>>
    ELSE LET r == ClampedRect(q[n])
         IN  IF r[3] > r[1] /\ r[4] > r[2]
             THEN Append(Accepted(q, n - 1), q[n])
             ELSE Accepted(q, n - 1)

\* the name slide_<p, 3 digits>_crop_<k> (p < 1000, k < 10)
SlideCropName(p, k) ==
    [slide |-> << (p \div 100) % 10, (p \div 10) % 10, p % 10 >>,
     crop |-> << k >>]

\* C10: at every point of an invocation of save_crops, the files written so
\* far are exactly one per box of positive clamped width and height, in
\* input order, the k-th named slide_<slide_idx+1>_crop_<k> and holding the
\* clamped rectangle of that box; crop_idx counts them from 1.
C10_CropNaming ==
    mpc = "save" =>
        LET acc == Accepted(boxes, bi - 1)
        IN  /\ Len(written) = Len(acc)
            /\ crop_idx = Len(acc) + 1
            /\ \A k \in 1..Len(acc) :
                  /\ written[k] = SlideCropName(slide_idx + 1, k)
                  /\ written[k] \in DOMAIN png
                  /\ png[written[k]] = ClampedRect(acc[k])

\* C10 witness: save_crops has skipped a first box that is empty only after
\* clamping and written the second box as crop 1.
C10_Witness ==
    /\ mpc = "save"
    /\ bi > Len(boxes)
    /\ Len(boxes) = 2
    /\ boxes[1][1][1] # boxes[1][2][1]
    /\ boxes[1][1][2] # boxes[1][2][2]
    /\ EmptyCrop(ClampedRect(boxes[1]))
    /\ written = << SlideCropName(slide_idx + 1, 1) >>

\* q without its last element (q itself when empty)
Front(q) == IF q = <<>> THEN q ELSE SubSeq(q, 1, Len(q) - 1)

\* C11: on the box list of one page: a completed drag appends one box at the
\* end, and the undo key applied to the result gives the previous list
\* back; the undo key removes the last box and leaves an empty list empty;
\* the clear key always leaves the list empty; whatever the event, the
\* boxes that remain are a prefix of the list before (insertion order kept)
\* or the list before is a prefix of the new one.
C11_BoxListOps ==
    /\ [][\A p \in DrawPoints :
             (MouseUp(p, MaxDraw) /\ start_ # <<>>) =>
                 /\ boxes_' = Append(boxes_, <<start_[1], p>>)
                 /\ Front(boxes_') = boxes_]_vars
    /\ [][KeyUndo => boxes_' = Front(boxes_)]_vars
    /\ [][KeyClear => boxes_' = <<>>]_vars
    /\ [][(mpc = "session" /\ mpc' = "session") =>
             \/ boxes_' = boxes_
             \/ boxes_' = <<>>
             \/ Front(boxes_') = boxes_
             \/ boxes_' = Front(boxes_)]_vars

\* C11 witness: the list holds two different boxes, so that their order
\* and the end an undo removes from can be told.
C11_Witness ==
    /\ mpc = "session"
    /\ Len(boxes_) = 2
    /\ boxes_[1] # boxes_[2]

\* C12: when the process has ended, its exit code is 0 after a normal
\* completion (the annotation loop returned and the stop flag was set) and
\* 1 after a fatal error (missing document, unreadable or empty document,
\* failed creation of the directory), also when the error is detected in
\* annotate_pdf after the worker thread was started.
C12_ExitCodes ==
    mpc = "exit" => exitCode = (IF stop_flag THEN "0" ELSE "1")

\* C13: the stop flag is only set once the annotation loop has been left for
\* good (main is at the join or has returned), and the process has not
\* ended while a started worker thread has not returned.
C13_StopAfterLoopAndJoin ==
    /\ stop_flag => mpc \in {"join", "exit"}
    /\ mpc = "exit" => wpc \in {"none", "done"}

\* C14: a Result File that exists in the directory holds its complete label
\* line in every reachable state: no observer finds it empty or partial.
C14_AtomicResult ==
    \A s \in DOMAIN tex : tex[s] # <<>>

\* C15: under a fair scheduler, once the stop flag is set the worker thread
\* returns, wherever it was (sleeping between passes, enumerating, waiting
\* on an item or writing), and then the join in main returns and the
\* process ends with exit code 0.
C15_WorkerTerminates ==
    /\ stop_flag ~> (wpc = "done")
    /\ stop_flag ~> (mpc = "exit" /\ exitCode = "0")

\* C15 witness: the stop flag was set while the worker slept between two
\* passes, and the process has ended.
C15_Witness ==
    /\ stopAt = "idle"
    /\ wpc = "done"
    /\ mpc = "exit"

\* C16: a press records the anchor (replacing a recorded one) and appends
\* nothing; a release with no anchor changes nothing; a release with an
\* anchor appends exactly one box, <<anchor, release point>> in that order
\* whatever their relative position, and clears the anchor; the undo and
\* clear keys leave the anchor alone; the list only grows by a release
\* with an anchor.
C16_PointerMachine ==
    /\ [][\A p \in DrawPoints :
             MouseDown(p) => (start_' = <<p>> /\ boxes_' = boxes_)]_vars
    /\ [][\A p \in DrawPoints :
             MouseUp(p, MaxDraw) =>
                 IF start_ = <<>>
                 THEN boxes_' = boxes_ /\ start_' = <<>>
                 ELSE /\ boxes_' = Append(boxes_, <<start_[1], p>>)
                      /\ start_' = <<>>]_vars
    /\ [][(KeyUndo \/ KeyClear) => start_' = start_]_vars
    /\ [][(mpc = "session" /\ Len(boxes_') > Len(boxes_)) =>
             /\ start_ # <<>>
             /\ start_' = <<>>
             /\ Len(boxes_') = Len(boxes_) + 1
             /\ boxes_'[Len(boxes_')][1] = start_[1]]_vars

\* C16 witness: a drag from the lower right to the upper left has been
\* recorded as it was made, and another press has recorded a new anchor.
C16_Witness ==
    /\ mpc = "session"
    /\ boxes_ = << << <<3, 2>>, <<-1, 0>> >> >>
    /\ start_ = << <<1, 1>> >>

\* the Result Files that hold their line
Completed == {s \in DOMAIN tex : tex[s] # <<>>}

\* the labels of the Result Files that hold their line
Labels == {tex[s][1] : s \in Completed}

\* the catalog is reused cyclically: the counter values n and n + 10 give
\* the same label, and value 0 gives the first one
CatalogCycles ==
    /\ next_latex_snippet(0) = LATEX_SNIPPETS[1]
    /\ \A n \in 0..MaxIndex :
          next_latex_snippet(n + Len(LATEX_SNIPPETS)) = next_latex_snippet(n)

\* C17 as claimed: the k-th Result File written holds catalog entry
\* (k-1) mod 10: at every moment the k Result Files written hold the first
\* k labels of the cyclic catalog.
C17_KthResultKthLabel ==
    /\ Labels = {next_latex_snippet(k - 1) : k \in 1..Cardinality(Completed)}
    /\ CatalogCycles

\* C17 amended: the label of an item is the catalog entry of the counter
\* value at the start of its processing, taken modulo 10, and the counter
\* advances by one at every start, never otherwise; different Result Files
\* hold the labels of different starts; as long as no open of a Result File
\* was refused, the k Result Files written hold the first k labels.
C17_LabelByStart ==
    /\ [](Labels \subseteq {next_latex_snippet(n) : n \in 0..(index - 1)})
    /\ [](\A s, t \in Completed : s # t => tex[s] # tex[t])
    /\ [](latex # "" => latex = next_latex_snippet(index - 1))
    /\ [][IF wpc = "iter" /\ wpc' = "wait"
          THEN index' = index + 1 ELSE index' = index]_vars
    /\ [](ioFaults = MaxFaults =>
            Labels = {next_latex_snippet(k - 1) :
                         k \in 1..Cardinality(Completed)})
    /\ [](CatalogCycles)

\* C17 witness: the open of the first Result File was refused, and the
\* first Result File written holds the second label of the catalog.
C17_Witness ==
    /\ ioFaults < MaxFaults
    /\ Cardinality(Completed) = 1
    /\ Labels = {LATEX_SNIPPETS[2]}

\* C18: a refused open of a Result File leaves the worker in its loop over
\* the directory with the remaining entries still to come and writes
\* nothing; under a fair scheduler every Crop File of the directory, the
\* one whose write failed included, still gets its Result File unless the
\* stop flag is set.
C18_FailedWriteNotFatal ==
    /\ [][ioFaults' < ioFaults =>
             (wpc' = "iter" /\ todo' = todo /\ tex' = tex)]_vars
    /\ \A s \in {CropStem(0, c) : c \in 1..MaxDraw} :
          [](s \in DOMAIN png => <>(Complete(s) \/ stop_flag))

\* C18 witness: an open was refused, and every Crop File has its Result
\* File while the stop flag is not set.
C18_Witness ==
    /\ ioFaults < MaxFaults
    /\ ~stop_flag
    /\ DOMAIN png # {}
    /\ \A s \in DOMAIN png : Complete(s)

\* C19: the worker never starts to process a name whose Result File exists,
\* also after the exporter has written the Crop File of that name again;
\* a step that writes a Crop File changes no Result File and not the label
\* counter, so the Result File keeps the label of the first processing.
C19_NoReprocessing ==
    /\ [][\A s \in DOMAIN tex : cur' = <<s>> => cur = <<s>>]_vars
    /\ [][(png' # png \/ pngWrites' # pngWrites) =>
             (tex' = tex /\ index' = index /\ cur' = cur)]_vars
    /\ [][\A s \in Completed :
             s \in DOMAIN tex' /\ tex'[s] = tex[s]]_vars

\* C19 witness: the first Crop File has been written a second time, with
\* another rectangle, it has its Result File, and a pass of the worker has
\* ended without finding work.
C19_Witness ==
    /\ wpc = "idle"
    /\ Completed = DOMAIN png
    /\ \E s \in Completed :
          /\ pngWrites[s] = 2
          /\ png[s] # ClampedRect(BacklogBoxes[1])
          /\ s = CropStem(0, 1)

\* C20: every Result File of the directory has a Crop File of the same
\* stem, and no step removes a Crop File or a Result File: the set of file
\* names only grows.
C20_FilesOnlyGrow ==
    /\ [](DOMAIN tex \subseteq DOMAIN png)
    /\ [][/\ DOMAIN png \subseteq DOMAIN png'
          /\ DOMAIN tex \subseteq DOMAIN tex']_vars

\* C20 witness: the directory holds two Crop Files and the Result File of
\* one of them, while the worker writes the Result File of the other.
C20_Witness ==
    /\ Cardinality(DOMAIN png) = 2
    /\ Cardinality(Completed) = 1
    /\ wpc = "write"

====
